---- MODULE Spec2Model ----
(***************************************************************************)
(* A model of Bridge.py, the TeamSpeak <-> Discord text bridge.            *)
(*                                                                         *)
(* Two execution contexts share two queues and a stop flag:                *)
(*   - TS3BridgeThread.run, the ServerQuery thread (connect, negotiate a   *)
(*     nickname, subscribe, then the steady-state relay loop, reconnecting *)
(*     with a backoff);                                                    *)
(*   - the asyncio loop of the Discord client (on_ready, on_message,       *)
(*     relay_ts_to_discord) and the signal handler _stop, which runs in    *)
(*     the main thread.                                                    *)
(*                                                                         *)
(* Text is a sequence of one-character strings; a control character is a   *)
(* named element ("LF", "CR", "TAB", ...).                                 *)
(***************************************************************************)
EXTENDS Integers, Sequences, FiniteSets, TLC

(***************************************************************************)
(* Bounds of the model.                                                    *)
(***************************************************************************)
\* largest client id the server hands out (ids are 1..MaxId; 0 stands for
\* an absent field, as the code's defaults do)
MaxId == 2
\* number of Discord messages the environment delivers to on_message
MaxMsgs == 2
\* number of channel-text events the server delivers
MaxEvents == 2
\* number of "ready" events of the Discord client
MaxReady == 2
\* number of failures (refused connections, failing commands, names in use)
\* the environment injects: enough of them to drive the backoff to its ceiling
MaxFaults == 6
\* the same where channel-text events are delivered
MaxEventFaults == 3
MaxFairMsgs == 1
\* longest text given to ts_encode
MaxWireLen == 3
\* commands that fail while a name is negotiated
MaxNickFaults == 8

(***************************************************************************)
(* Program constants.                                                      *)
(***************************************************************************)
InitialBackoff == 2
BackoffCeiling == 30
max_attempts == 3

(***************************************************************************)
(* Text helpers.                                                           *)
(***************************************************************************)
UpperAlpha == <<"A","B","C","D","E","F","G","H","I","J","K","L","M",
                "N","O","P","Q","R","S","T","U","V","W","X","Y","Z">>
LowerAlpha == <<"a","b","c","d","e","f","g","h","i","j","k","l","m",
                "n","o","p","q","r","s","t","u","v","w","x","y","z">>

\* re.IGNORECASE folds both sides to one case
Lower(c) ==
    IF \E k \in 1..26 : UpperAlpha[k] = c
    THEN LowerAlpha[CHOOSE k \in 1..26 : UpperAlpha[k] = c]
    ELSE c

\* the literal lit occurs in s at position i, letters compared without case
MatchCI(s, i, lit) ==
    /\ i >= 1
    /\ i + Len(lit) - 1 <= Len(s)
    /\ \A k \in 1..Len(lit) : Lower(s[i + k - 1]) = Lower(lit[k])

\* least j >= i with s[j] = c, or Len(s) + 1 when there is none
FirstIdx(s, i, c) ==
    IF \E j \in i..Len(s) : s[j] = c
    THEN CHOOSE j \in i..Len(s) : s[j] = c /\ \A k \in i..(j - 1) : s[k] # c
    ELSE Len(s) + 1

\* str.strip() with no argument removes these
Whitespace == {" ", "TAB", "LF", "CR", "VT", "FF"}

Strip(s) ==
    IF \A k \in 1..Len(s) : s[k] \in Whitespace
    THEN << >>
    ELSE LET a == CHOOSE k \in 1..Len(s) :
                      s[k] \notin Whitespace /\ \A j \in 1..(k - 1) : s[j] \in Whitespace
             b == CHOOSE k \in 1..Len(s) :
                      s[k] \notin Whitespace /\ \A j \in (k + 1)..Len(s) : s[j] \in Whitespace
         IN  SubSeq(s, a, b)

\* s.replace(c, d) for single characters
ReplaceChar(s, c, d) == [k \in 1..Len(s) |-> IF s[k] = c THEN d ELSE s[k]]

\* the second character of each escape of _TS_DECODE_MAP
TsEscapes == {"s", "/", "p", "a", "b", "f", "n", "r", "t", "v", "\\"}

_TS_DECODE_MAP(c) ==
    CASE c = "s"  -> " "
      [] c = "/"  -> "/"
      [] c = "p"  -> "|"
      [] c = "a"  -> "BEL"
      [] c = "b"  -> "BS"
      [] c = "f"  -> "FF"
      [] c = "n"  -> "LF"
      [] c = "r"  -> "CR"
      [] c = "t"  -> "TAB"
      [] c = "v"  -> "VT"
      [] c = "\\" -> "\\"

RECURSIVE TsDecodeFrom(_, _)
TsDecodeFrom(s, i) ==
    IF i > Len(s) THEN << >>
    ELSE IF s[i] = "\\" /\ i < Len(s) /\ s[i + 1] \in TsEscapes
         THEN <<_TS_DECODE_MAP(s[i + 1])>> \o TsDecodeFrom(s, i + 2)
         ELSE <<s[i]>> \o TsDecodeFrom(s, i + 1)

\* one left-to-right pass of _TS_DECODE_REGEX.sub
ts_decode(value) == TsDecodeFrom(value, 1)

(***************************************************************************)
(* re.sub for the patterns of strip_bbcode and transform_urls_for_discord. *)
(* ReMatchEnd(p, s, i) is the position after the match of pattern p that   *)
(* starts at i, or 0 when p does not match there; ReRepl is what replaces  *)
(* the match.  No pattern matches the empty string.                        *)
(***************************************************************************)
TagUrl     == <<"[","U","R","L","]">>
TagUrlEq   == <<"[","U","R","L","=">>
TagUrlEnd  == <<"[","/","U","R","L","]">>
TagColorEq == <<"[","c","o","l","o","r","=">>
TagColorEnd == <<"[","/","c","o","l","o","r","]">>
TagSizeEq  == <<"[","s","i","z","e","=">>
TagSizeEnd == <<"[","/","s","i","z","e","]">>
TagCode    == <<"[","c","o","d","e","]">>
TagCodeEnd == <<"[","/","c","o","d","e","]">>
SchemeHttp  == <<"h","t","t","p",":","/","/">>
SchemeHttps == <<"h","t","t","p","s",":","/","/">>
HostWww     == <<"w","w","w",".">>
HostX       == <<"x",".","c","o","m","/">>
HostTwitter == <<"t","w","i","t","t","e","r",".","c","o","m","/">>
FixupX      == <<"h","t","t","p","s",":","/","/","f","i","x","u","p","x",".","c","o","m","/">>
FxTwitter   == <<"h","t","t","p","s",":","/","/","f","x","t","w","i","t","t","e","r",".","c","o","m","/">>

\* \[/?[Xx]\] for a one-letter tag
LetterTagEnd(s, i, c) ==
    IF MatchCI(s, i, <<"[", c, "]">>) THEN i + 3
    ELSE IF MatchCI(s, i, <<"[", "/", c, "]">>) THEN i + 4
    ELSE 0

\* https?://(www\.)?<host>
UrlHostEnd(s, i, host) ==
    LET a == IF MatchCI(s, i, SchemeHttps) THEN i + 8
             ELSE IF MatchCI(s, i, SchemeHttp) THEN i + 7
             ELSE 0
        b == IF a # 0 /\ MatchCI(s, a, HostWww) THEN a + 4 ELSE a
    IN  IF a # 0 /\ MatchCI(s, b, host) THEN b + Len(host) ELSE 0

ReMatchEnd(p, s, i) ==
    CASE p = "url_plain" ->
           IF MatchCI(s, i, TagUrl)
           THEN LET j == FirstIdx(s, i + 5, "[")
                IN  IF MatchCI(s, j, TagUrlEnd) THEN j + 6 ELSE 0
           ELSE 0
      [] p = "url_eq" ->
           IF MatchCI(s, i, TagUrlEq)
           THEN LET k == FirstIdx(s, i + 5, "]")
                    j == FirstIdx(s, k + 1, "[")
                IN  IF k <= Len(s) /\ MatchCI(s, j, TagUrlEnd) THEN j + 6 ELSE 0
           ELSE 0
      [] p = "url_open_eol" ->
           IF MatchCI(s, i, TagUrl) /\ FirstIdx(s, i + 5, "[") > Len(s)
           THEN Len(s) + 1 ELSE 0
      [] p = "url_open" -> IF MatchCI(s, i, TagUrl) THEN i + 5 ELSE 0
      [] p = "b" -> LetterTagEnd(s, i, "b")
      [] p = "i" -> LetterTagEnd(s, i, "i")
      [] p = "u" -> LetterTagEnd(s, i, "u")
      [] p = "s" -> LetterTagEnd(s, i, "s")
      [] p = "code" ->
           IF MatchCI(s, i, TagCode) THEN i + 6
           ELSE IF MatchCI(s, i, TagCodeEnd) THEN i + 7 ELSE 0
      [] p = "color" ->
           IF MatchCI(s, i, TagColorEq) /\ FirstIdx(s, i + 7, "]") <= Len(s)
           THEN FirstIdx(s, i + 7, "]") + 1 ELSE 0
      [] p = "color_end" -> IF MatchCI(s, i, TagColorEnd) THEN i + 8 ELSE 0
      [] p = "size" ->
           IF MatchCI(s, i, TagSizeEq) /\ FirstIdx(s, i + 6, "]") <= Len(s)
           THEN FirstIdx(s, i + 6, "]") + 1 ELSE 0
      [] p = "size_end" -> IF MatchCI(s, i, TagSizeEnd) THEN i + 7 ELSE 0
      [] p = "x_com" -> UrlHostEnd(s, i, HostX)
      [] p = "twitter_com" -> UrlHostEnd(s, i, HostTwitter)

ReRepl(p, s, i, m) ==
    CASE p = "url_plain" -> SubSeq(s, i + 5, m - 7)
      [] p = "url_eq" -> SubSeq(s, FirstIdx(s, i + 5, "]") + 1, m - 7)
      [] p = "url_open_eol" -> SubSeq(s, i + 5, Len(s))
      [] p = "x_com" -> FixupX
      [] p = "twitter_com" -> FxTwitter
      [] OTHER -> << >>

RECURSIVE ReSubFrom(_, _, _)
ReSubFrom(p, s, i) ==
    IF i > Len(s) THEN << >>
    ELSE LET m == ReMatchEnd(p, s, i)
         IN  IF m = 0
             THEN <<s[i]>> \o ReSubFrom(p, s, i + 1)
             ELSE ReRepl(p, s, i, m) \o ReSubFrom(p, s, m)

ReSub(p, s) == ReSubFrom(p, s, 1)

RECURSIVE ReSubAll(_, _)
ReSubAll(ps, s) ==
    IF ps = << >> THEN s ELSE ReSubAll(Tail(ps), ReSub(Head(ps), s))

\* the four URL substitutions, then bbcode_patterns in order, then strip()
strip_bbcode(text) ==
    Strip(ReSubAll(<<"url_plain", "url_eq", "url_open_eol", "url_open",
                     "b", "i", "u", "s", "code",
                     "color", "color_end", "size", "size_end">>, text))

\* url_transformations, applied in order
transform_urls_for_discord(text) == ReSubAll(<<"x_com", "twitter_com">>, text)

(***************************************************************************)
(* ts_encode.                                                              *)
(***************************************************************************)
\* value.replace(c, rep) for a single character c
RECURSIVE ReplaceStr(_, _, _)
ReplaceStr(s, c, rep) ==
    IF s = << >> THEN << >>
    ELSE (IF Head(s) = c THEN rep ELSE <<Head(s)>>) \o ReplaceStr(Tail(s), c, rep)

\* the replacements of ts_encode in the order of the code: the backslash
\* first
TsEncodeSteps ==
    << <<"\\", <<"\\","\\">> >>, <<" ", <<"\\","s">> >>, <<"/", <<"\\","/">> >>,
       <<"|", <<"\\","p">> >>, <<"BEL", <<"\\","a">> >>, <<"BS", <<"\\","b">> >>,
       <<"FF", <<"\\","f">> >>, <<"LF", <<"\\","n">> >>, <<"CR", <<"\\","r">> >>,
       <<"TAB", <<"\\","t">> >>, <<"VT", <<"\\","v">> >> >>

RECURSIVE EncodeWith(_, _)
EncodeWith(steps, s) ==
    IF steps = << >> THEN s
    ELSE EncodeWith(Tail(steps), ReplaceStr(s, Head(steps)[1], Head(steps)[2]))

\* the backslash is escaped after the other characters
ts_encode_backslash_last(value) ==
    EncodeWith(Tail(TsEncodeSteps) \o <<Head(TsEncodeSteps)>>, value)

ts_encode(value) == EncodeWith(TsEncodeSteps, value)

(***************************************************************************)
(* shorten_discord_attachments.                                            *)
(***************************************************************************)
image_extensions ==
    <<<<"p","n","g">>, <<"j","p","g">>, <<"j","p","e","g">>, <<"g","i","f">>,
      <<"b","m","p">>, <<"w","e","b","p">>, <<"s","v","g">>,
      <<"t","i","f","f">>, <<"t","i","f">>, <<"i","c","o">>,
      <<"h","e","i","c">>, <<"h","e","i","f">>, <<"j","f","i","f">>>>
video_extensions ==
    <<<<"m","p","4">>, <<"a","v","i">>, <<"m","o","v">>, <<"m","k","v">>,
      <<"w","m","v">>, <<"f","l","v">>, <<"w","e","b","m">>, <<"m","4","v">>,
      <<"3","g","p">>, <<"o","g","v">>, <<"m","p","g">>, <<"m","p","e","g">>,
      <<"m","p","2">>, <<"m","p","e">>, <<"m","p","v">>, <<"m","2","v">>>>
audio_extensions ==
    <<<<"m","p","3">>, <<"w","a","v">>, <<"f","l","a","c">>, <<"a","a","c">>,
      <<"o","g","g">>, <<"m","4","a">>, <<"w","m","a">>,
      <<"o","p","u","s">>>>

HostCdn == <<"c","d","n",".","d","i","s","c","o","r","d","a","p","p",".","c","o","m","/">>
LabelImage == <<"C","l","i","c","k"," ","t","o"," ","s","h","o","w"," ","i","m","a","g","e">>
LabelVideo == <<"C","l","i","c","k"," ","t","o"," ","d","o","w","n","l","o","a","d"," ",
                "v","i","d","e","o">>
LabelAudio == <<"C","l","i","c","k"," ","t","o"," ","d","o","w","n","l","o","a","d"," ",
                "a","u","d","i","o">>

\* the characters that end a run of [^)\s]
UrlStop == Whitespace \cup {")"}

\* least j >= i with s[j] in UrlStop, or Len(s) + 1
RunEnd(s, i) ==
    IF \E j \in i..Len(s) : s[j] \in UrlStop
    THEN CHOOSE j \in i..Len(s) :
             s[j] \in UrlStop /\ \A k \in i..(j - 1) : s[k] \notin UrlStop
    ELSE Len(s) + 1

\* \.(?:e1|e2|...) matches at position k
ExtAt(exts, s, k) ==
    /\ k <= Len(s)
    /\ s[k] = "."
    /\ \E n \in 1..Len(exts) : MatchCI(s, k + 1, exts[n])

\* the alternative that matches there: the first of the list
ExtLen(exts, s, k) ==
    Len(exts[CHOOSE n \in 1..Len(exts) :
                 /\ MatchCI(s, k + 1, exts[n])
                 /\ \A m \in 1..(n - 1) : ~MatchCI(s, k + 1, exts[m])])

\* (https?://cdn\.discordapp\.com/[^)\s]*\.(?:exts)(?:\?[^)\s]*)?) at i: the
\* position after the match, or 0.  The greedy [^)\s]* gives the last
\* extension of the run; a query string runs to the end of the run.
CdnMatchEnd(exts, s, i) ==
    LET a == IF MatchCI(s, i, SchemeHttps) /\ MatchCI(s, i + 8, HostCdn) THEN i + 8 + Len(HostCdn)
             ELSE IF MatchCI(s, i, SchemeHttp) /\ MatchCI(s, i + 7, HostCdn) THEN i + 7 + Len(HostCdn)
             ELSE 0
        r == RunEnd(s, a)
    IN  IF a = 0 \/ ~\E k \in a..(r - 1) : ExtAt(exts, s, k)
        THEN 0
        ELSE LET dot == CHOOSE k \in a..(r - 1) :
                            ExtAt(exts, s, k) /\ \A j \in (k + 1)..(r - 1) : ~ExtAt(exts, s, j)
                 e == dot + 1 + ExtLen(exts, s, dot)
             IN  IF e <= Len(s) /\ s[e] = "?" THEN r ELSE e

\* re.sub(pattern, r'[URL=\1]label[/URL]', content, flags=re.IGNORECASE):
\* the text up to the leftmost match is kept, the match is wrapped, and the
\* scan goes on after it
RECURSIVE CdnSubFrom(_, _, _, _)
CdnSubFrom(exts, label, s, i) ==
    IF ~\E j \in i..Len(s) : CdnMatchEnd(exts, s, j) # 0
    THEN SubSeq(s, i, Len(s))
    ELSE LET j == CHOOSE j0 \in i..Len(s) :
                      /\ CdnMatchEnd(exts, s, j0) # 0
                      /\ \A j1 \in i..(j0 - 1) : CdnMatchEnd(exts, s, j1) = 0
             m == CdnMatchEnd(exts, s, j)
         IN  SubSeq(s, i, j - 1) \o <<"[","U","R","L","=">> \o SubSeq(s, j, m - 1)
               \o <<"]">> \o label \o TagUrlEnd \o CdnSubFrom(exts, label, s, m)

shorten_discord_attachments(content) ==
    CdnSubFrom(audio_extensions, LabelAudio,
        CdnSubFrom(video_extensions, LabelVideo,
            CdnSubFrom(image_extensions, LabelImage, content, 1), 1), 1)

(***************************************************************************)
(* Values of the environment.                                              *)
(***************************************************************************)
Empty  == << >>
\* Optional[str] that is None
NoneStr == <<"<None>">>
NameAl == <<"A","l">>
NameBo == <<"B","o">>
NameCy == <<"C","y">>
\* the wire text "\s": one escaped space
EncodedSpace == <<"\\","s">>
BodyHey  == <<"[","b","]","h","e","y","[","/","b","]">>
\* the wire text "a\nb": an escaped newline between two letters
BodyLine == <<"a","\\","n","b">>

\* int(data.get("invokerid", "0")): 0 is an absent field
SenderIds == 0..MaxId


NoEvent == [event |-> "timeout", invokerid |-> 0, names |-> <<Empty, Empty, Empty>>, msg |-> Empty]
OtherEvent == [event |-> "notifycliententerview", invokerid |-> 0,
               names |-> <<Empty, Empty, Empty>>, msg |-> Empty]
\* the channel-text events the server sends: every sender id with each of
\* these name fields and bodies
EventContents ==
    { <<<<Empty, Empty, Empty>>, BodyHey>>,
      <<<<NameAl, Empty, Empty>>, BodyHey>>,
      <<<<EncodedSpace, Empty, NameBo>>, BodyLine>> }
TextEvents ==
    { [event |-> "notifytextmessage", invokerid |-> i, names |-> c[1], msg |-> c[2]] :
        i \in SenderIds, c \in EventContents }

\* what ts3conn.clientinfo(clid=...) can answer
ClientInfoReplies ==
    { [kind |-> "error",  nick |-> Empty],
      [kind |-> "nodata", nick |-> Empty],
      [kind |-> "ok",     nick |-> Empty],
      [kind |-> "ok",     nick |-> EncodedSpace],
      [kind |-> "ok",     nick |-> NameCy] }

\* a message the Discord gateway delivers to on_message
Hello  == <<"h","e","l","l","o">>
\* message.content of blanks only
Blank  == <<" ">>
\* two lines with blanks around
TwoLines == <<" ","h","i","LF","x"," ">>
JpgUrl == SchemeHttps \o HostCdn \o <<"a",".","j","p","g">>
\* a video with a query string
Mp4Url == SchemeHttps \o HostCdn \o <<"b",".","m","p","4","?","e","=","1">>
AllMessages ==
    [channel : {"bridge", "other"}, author : {"user", "bot"},
     webhook_id : {"none", "hook"}, content : {Empty, Hello, Blank, TwoLines},
     attachments : {<< >>, <<JpgUrl>>, <<JpgUrl, Mp4Url>>}, display_name : {NameAl}]
PlainMessage ==
    [channel |-> "bridge", author |-> "user", webhook_id |-> "none",
     content |-> Hello, attachments |-> << >>, display_name |-> NameAl]
\* a message that passes the filters and one of another channel
DefaultGateway == {PlainMessage, [PlainMessage EXCEPT !.channel = "other"]}

\* the characters ts_encode escapes, and three letters that name escapes
WireChars == {" ", "/", "|", "BEL", "BS", "FF", "LF", "CR", "TAB", "VT", "\\",
              "s", "p", "n"}
WireStrings == UNION {[1..n -> WireChars] : n \in 0..MaxWireLen}

Digits == <<"0","1","2","3","4","5","6","7","8","9">>
\* str(n) for the one-digit ids of the model
IntStr(n) == <<Digits[n + 1]>>

Min(a, b) == IF a <= b THEN a ELSE b

(***************************************************************************)
(* State.                                                                  *)
(***************************************************************************)
VARIABLES
    \* --- TS3BridgeThread ---
    pc,             \* where run() stands
    backoff,        \* local backoff of run()
    ts3conn,        \* self.ts3conn is not None
    nOpen,          \* ServerQuery transports currently open
    attempt,        \* loop variable of the nickname retries
    clid,           \* self.clid
    username_cache, \* self.username_cache
    event,          \* local event of the steady-state loop
    invokername,    \* local invokername of the last text event handled
    nickname,       \* self.nickname: how many suffixes it has after TS3_NICKNAME
    \* --- shared ---
    stop_event,
    discord_to_ts_queue,
    scheduled,      \* put() coroutines handed to the loop, not yet run
    ts_to_discord_queue,
    \* --- main thread / asyncio loop ---
    hpc,            \* where the signal handler _stop stands
    relay,          \* number of relay_ts_to_discord tasks
    relaySleeping,  \* how many of them are in the pause after a failure
    inFlight,       \* the items tasks took and are still posting, oldest first
    clientClosed,   \* client.is_closed()
    msgsLeft, eventsLeft, readyLeft, faultsLeft,   \* inputs the environment still has
    gateway,        \* the messages the Discord gateway may deliver
    kickOutcomes,   \* how the TS server may answer the attempt to free the name
    webhook,        \* the global webhook is not None
    mirrored,       \* what webhook.send was given and accepted
    \* --- history ---
    nameCalls,      \* the clientupdate calls on this connection and their results
    kick,           \* how the attempt to free the name ended on this connection
    completed,      \* the commands that succeeded on this connection, in order
    whoamiReply,    \* client_id of the whoami reply on this connection (0: none)
    slept, slid,    \* the last delays slept; whether older ones were dropped
    wasActive,      \* the attempt before this sleep entered the steady-state loop
    taken, sentCount,   \* messages dequeued; sends that succeeded, per message
    prevAny, lookedUp,  \* per sender id: last name resolved; last name looked up
    wire_in, wire_out, wire_pc,   \* a text given to ts_encode and then to ts_decode
    logouts,            \* logout() calls on the connection self.ts3conn names
    relayLog,           \* per item a relay task took: its text and what became of it
    origin              \* per message number: the message on_message was called with

threadVars == <<pc, backoff, ts3conn, nOpen, attempt, clid,
                username_cache, event, invokername, nickname>>
sharedVars == <<stop_event, discord_to_ts_queue, scheduled, ts_to_discord_queue>>
mainVars   == <<hpc, relay, relaySleeping, inFlight, clientClosed, msgsLeft, eventsLeft, readyLeft, faultsLeft,
                gateway, webhook, mirrored, kickOutcomes>>
histVars   == <<nameCalls, kick, completed, whoamiReply, slept, slid, wasActive, taken, sentCount,
                prevAny, lookedUp, logouts, origin, relayLog>>
wireVars == <<wire_in, wire_out, wire_pc>>
vars == <<threadVars, sharedVars, mainVars, histVars, wireVars>>

\* number of delays the history keeps
SleepWindow == 2

\* the state after construction: budget is what the environment will do,
\* msgs what Discord may deliver, hook whether a webhook is configured
InitState(budget, msgs, hook) ==
    /\ pc = "top"
    /\ backoff = InitialBackoff
    /\ ts3conn = FALSE
    /\ nOpen = 0
    /\ attempt = 0
    /\ clid = 0
    /\ username_cache = << >>
    /\ event = NoEvent
    /\ invokername = NoneStr
    /\ stop_event = FALSE
    /\ discord_to_ts_queue = << >>
    /\ scheduled = << >>
    /\ ts_to_discord_queue = << >>
    /\ hpc = "idle"
    /\ relay = 0
    /\ relaySleeping = 0
    /\ inFlight = << >>
    /\ relayLog = << >>
    /\ clientClosed = FALSE
    /\ msgsLeft = budget[1]
    /\ eventsLeft = budget[2]
    /\ readyLeft = budget[3]
    /\ faultsLeft = budget[4]
    /\ whoamiReply = 0
    /\ completed = << >>
    /\ nickname = 0
    /\ nameCalls = << >>
    /\ kick = "none"
    /\ slept = << >>
    /\ slid = FALSE
    /\ wasActive = FALSE
    /\ taken = {}
    /\ sentCount = [m \in {} |-> 0]
    /\ prevAny = [i \in {} |-> Empty]
    /\ lookedUp = [i \in {} |-> Empty]
    /\ logouts = 0
    /\ gateway = msgs
    /\ webhook = hook
    /\ mirrored = << >>
    /\ origin = [m \in {} |-> PlainMessage]

\* no text is being escaped
WireIdle == wire_pc = "off" /\ wire_in = Empty /\ wire_out = Empty

\* how lines 262-292 can end: nobody holds the name; the holder is kicked;
\* the kick fails and poke-then-kick works; both fail; clientlist fails
KickOutcomes == {"absent", "kicked", "poked", "refused", "unlisted"}

\* nobody else holds the name
NameFree == kickOutcomes = {"absent"}

InitProgram(budget, msgs, hook) ==
    InitState(budget, msgs, hook) /\ WireIdle /\ NameFree

InitWith(budget) == InitProgram(budget, DefaultGateway, FALSE)

\* the state after construction, with every input of the environment
Init == InitWith(<<MaxMsgs, MaxEvents, MaxReady, MaxFaults>>)
\* the same with no channel-text event to come, and with no Discord message
InitSup == InitWith(<<MaxMsgs, 0, MaxReady, MaxFaults>>)
InitEv  == InitWith(<<0, MaxEvents, 0, MaxEventFaults>>)
InitFair == InitWith(<<MaxFairMsgs, 0, 0, MaxFaults>>)

(***************************************************************************)
(* Helpers of TS3BridgeThread.run.                                         *)
(***************************************************************************)
\* leaving the block of "with ts3.query.TS3Connection(...) as ts3conn":
\* the context manager closes the transport
WithExitLeak(n) == n
WithExit(n) == n - 1

\* backoff = min(backoff * 2, 30)
NextBackoffNoCap(b) == b * 2
NextBackoff(b) == Min(b * 2, BackoffCeiling)

\* discord_to_ts_queue.get_nowait() removes the head
DqPeek(q) == q
DqGet(q) == Tail(q)

(***************************************************************************)
(* Helpers of on_message.                                                  *)
(***************************************************************************)
\* the webhook filter is missing
PassesChannelAndAuthor(message) ==
    /\ message.channel = "bridge"
    /\ message.author # "bot"

\* lines 563-571: the three filters
PassesFilters(message) ==
    /\ message.channel = "bridge"
    /\ message.author # "bot"
    /\ message.webhook_id = "none"

\* lines 574-581: the stripped content when there is one, then "(url)" for
\* each attachment
Parts(message) ==
    (IF message.content # Empty THEN <<Strip(message.content)>> ELSE << >>)
      \o [k \in 1..Len(message.attachments) |->
            <<"(">> \o message.attachments[k] \o <<")">>]

\* " ".join(p.replace("\n", " ").strip() for p in parts)
RECURSIVE JoinParts(_)
JoinParts(parts) ==
    IF parts = << >> THEN << >>
    ELSE LET p == Strip(ReplaceChar(Head(parts), "LF", " "))
         IN  IF Len(parts) = 1 THEN p ELSE p \o <<" ">> \o JoinParts(Tail(parts))

\* line 587
RawContent(message) == Strip(JoinParts(Parts(message)))

\* the content goes to TeamSpeak as it is
shorten_skipped(content) == content

\* line 590: content_for_ts
ShortenForTs(content) == shorten_discord_attachments(content)

\* lines 590-597: f"{display_name}: {content_for_ts}"
BridgedToTs(message) ==
    message.display_name \o <<":"," ">> \o ShortenForTs(RawContent(message))

\* line 604: f"**{display_name}**: {content_for_webhook}"
BridgedToWebhook(message) ==
    <<"*","*">> \o message.display_name \o <<"*","*",":"," ">> \o RawContent(message)

\* "not invokername": None or the empty string
Falsy(n) == n = NoneStr \/ n = Empty

\* FIRST CHECK: the first candidate field that is non-empty and decodes and
\* strips to a non-empty name
RECURSIVE FirstCheckFrom(_, _)
FirstCheckFrom(names, k) ==
    IF k > Len(names) THEN NoneStr
    ELSE IF names[k] # Empty /\ Strip(ts_decode(names[k])) # Empty
         THEN Strip(ts_decode(names[k]))
         ELSE FirstCheckFrom(names, k + 1)

FirstCheck(names) == FirstCheckFrom(names, 1)

SecondCheckSkipped(name, id, cache) == name

\* SECOND CHECK: the cache, when the event gave no name
SecondCheck(name, id, cache) ==
    IF Falsy(name) /\ id > 0 /\ id \in DOMAIN cache THEN cache[id] ELSE name

\* THIRD CHECK: the name after clientinfo answered reply
ThirdCheckName(reply, id, cache) ==
    IF reply.kind = "ok" /\ reply.nick # Empty
    THEN Strip(ts_decode(reply.nick))
    ELSE IF id \in DOMAIN cache THEN cache[id] ELSE NoneStr

Put(f, k, v) == [x \in DOMAIN f \cup {k} |-> IF x = k THEN v ELSE f[x]]

\* self.username_cache[invokerid] = invokername
ThirdCheckCacheUnwritten(reply, id, cache) == cache
ThirdCheckCache(reply, id, cache) ==
    IF reply.kind = "ok" /\ reply.nick # Empty
    THEN Put(cache, id, Strip(ts_decode(reply.nick)))
    ELSE cache

\* FINAL FALLBACK: f"Client_{invokerid}"
Placeholder(id) == <<"C","l","i","e","n","t","_">> \o IntStr(id)

\* "if self.clid and invokerid == self.clid"
IsOwn(id) == clid # 0 /\ id = clid

\* raw_msg.replace("\r", " ").replace("\n", " ").strip(), strip_bbcode,
\* transform_urls_for_discord
CleanBodyRaw(msg) == ts_decode(msg)
CleanBody(msg) ==
    transform_urls_for_discord(strip_bbcode(
        Strip(ReplaceChar(ReplaceChar(ts_decode(msg), "CR", " "), "LF", " "))))

\* f"**{invokername}**: {clean}"
Bridged(name, clean) == <<"*","*">> \o name \o <<"*","*",":"," ">> \o clean

\* stop_event.is_set(), as run() reads it at lines 250, 352, 478 and 487
StopIgnored == FALSE
StopRequested == stop_event

\* the environment makes a command fail, or lets it succeed
Fault   == faultsLeft > 0 /\ faultsLeft' = faultsLeft - 1
NoFault == faultsLeft' = faultsLeft

\* an exception inside the with block: the block is left, then the handler
\* of line 482 runs
Raise == /\ Fault
         /\ pc' = "except"
         /\ nOpen' = WithExit(nOpen)

\* a command of the negotiation succeeds and run() goes on to the next one
Proceed(next) == /\ NoFault
                 /\ pc' = next
                 /\ nOpen' = nOpen

\* the history of the connection: a command succeeded, or nothing did
Did(command) == completed' = Append(completed, command)
NotDone == completed' = completed

(***************************************************************************)
(* TS3BridgeThread.run: connecting and negotiating.                        *)
(***************************************************************************)
\* lines 250-254: the loop test and the opening of the transport
Connect ==
    /\ pc = "top"
    /\ ~StopRequested
    /\ \/ /\ NoFault
          /\ nOpen' = nOpen + 1
          /\ ts3conn' = TRUE
          /\ logouts' = 0
          /\ whoamiReply' = 0
          /\ completed' = << >>
          /\ nameCalls' = << >>
          /\ kick' = "none"
          /\ pc' = "login"
       \/ /\ Fault
          /\ pc' = "except"
          /\ UNCHANGED <<nOpen, ts3conn, logouts, whoamiReply, completed,
                         nameCalls, kick>>
    /\ UNCHANGED <<backoff, attempt, clid, username_cache, event, invokername,
                   stop_event, discord_to_ts_queue, scheduled,
                   ts_to_discord_queue, hpc, relay, clientClosed, msgsLeft,
                   eventsLeft, readyLeft, slept, slid, wasActive, taken,
                   sentCount, prevAny, lookedUp, gateway, webhook, mirrored,
                   origin, wire_in, wire_out, wire_pc, relaySleeping, relayLog,
                   nickname, kickOutcomes, inFlight>>

\* line 250 with the stop flag set: run() returns
RunExit ==
    /\ pc = "top"
    /\ StopRequested
    /\ pc' = "done"
    /\ UNCHANGED <<backoff, ts3conn, nOpen, attempt, clid, username_cache,
                   event, invokername, stop_event, discord_to_ts_queue,
                   scheduled, ts_to_discord_queue, hpc, relay, clientClosed,
                   msgsLeft, eventsLeft, readyLeft, faultsLeft, whoamiReply,
                   slept, slid, wasActive, taken, sentCount, prevAny, lookedUp,
                   logouts, gateway, webhook, mirrored, origin, wire_in,
                   wire_out, wire_pc, relaySleeping, relayLog, completed,
                   nickname, nameCalls, kickOutcomes, kick, inFlight>>

\* line 256
Login ==
    /\ pc = "login"
    /\ \/ Proceed("use") /\ Did("login")
       \/ Raise /\ NotDone
    /\ UNCHANGED <<backoff, ts3conn, attempt, clid, username_cache, event,
                   invokername, stop_event, discord_to_ts_queue, scheduled,
                   ts_to_discord_queue, hpc, relay, clientClosed, msgsLeft,
                   eventsLeft, readyLeft, whoamiReply, slept, slid, wasActive,
                   taken, sentCount, prevAny, lookedUp, logouts, gateway,
                   webhook, mirrored, origin, wire_in, wire_out, wire_pc,
                   relaySleeping, relayLog, nickname, nameCalls, kickOutcomes,
                   kick, inFlight>>

UseThenLoop ==
    /\ pc = "use"
    /\ \/ Proceed("loop") /\ Did("use")
       \/ Raise /\ NotDone
    /\ UNCHANGED <<backoff, ts3conn, attempt, clid, username_cache, event,
                   invokername, stop_event, discord_to_ts_queue, scheduled,
                   ts_to_discord_queue, hpc, relay, clientClosed, msgsLeft,
                   eventsLeft, readyLeft, whoamiReply, slept, slid, wasActive,
                   taken, sentCount, prevAny, lookedUp, logouts, gateway,
                   webhook, mirrored, origin, wire_in, wire_out, wire_pc,
                   relaySleeping, relayLog, nickname, nameCalls, kickOutcomes,
                   kick, inFlight>>

\* line 260
Use ==
    /\ pc = "use"
    /\ \/ Proceed("clientlist") /\ Did("use")
       \/ Raise /\ NotDone
    /\ UNCHANGED <<backoff, ts3conn, attempt, clid, username_cache, event,
                   invokername, stop_event, discord_to_ts_queue, scheduled,
                   ts_to_discord_queue, hpc, relay, clientClosed, msgsLeft,
                   eventsLeft, readyLeft, whoamiReply, slept, slid, wasActive,
                   taken, sentCount, prevAny, lookedUp, logouts, gateway,
                   webhook, mirrored, origin, wire_in, wire_out, wire_pc,
                   relaySleeping, relayLog, nickname, nameCalls, kickOutcomes,
                   kick, inFlight>>

\* lines 262-295: every failure of clientlist, kick and poke is caught
FreeNickname ==
    /\ pc = "clientlist"
    /\ pc' = "nick"
    /\ attempt' = 0
    /\ \E outcome \in kickOutcomes : kick' = outcome
    /\ nOpen' = nOpen
    /\ UNCHANGED <<backoff, ts3conn, clid, username_cache, event, invokername,
                   stop_event, discord_to_ts_queue, scheduled,
                   ts_to_discord_queue, hpc, relay, clientClosed, msgsLeft,
                   eventsLeft, readyLeft, faultsLeft, whoamiReply, slept, slid,
                   wasActive, taken, sentCount, prevAny, lookedUp, logouts,
                   gateway, webhook, mirrored, origin, wire_in, wire_out,
                   wire_pc, relaySleeping, relayLog, completed, nickname,
                   nameCalls, kickOutcomes, inFlight>>

\* a clientupdate call with the name that has n suffixes, and its result
Called(n, result) == nameCalls' = Append(nameCalls, [name |-> n, result |-> result])

MoreAttemptsAlways(a) == TRUE

\* line 298: "for attempt in range(max_attempts)" has another pass
MoreAttempts(a) == a + 1 < max_attempts

\* lines 298-311: one pass of "for attempt in range(max_attempts)": the
\* name is set, or it is in use (error 513), or another error is raised
SetNickname ==
    /\ pc = "nick"
    /\ \/ Proceed("whoami") /\ attempt' = attempt /\ Did("name")
          /\ Called(nickname, "ok")
       \/ /\ Fault
          /\ IF MoreAttempts(attempt)
             THEN pc' = "nick" /\ attempt' = attempt + 1
             ELSE pc' = "fallback" /\ attempt' = attempt
          /\ nOpen' = nOpen
          /\ NotDone
          /\ Called(nickname, "in_use")
       \/ Raise /\ attempt' = attempt /\ NotDone /\ Called(nickname, "error")
    /\ UNCHANGED <<backoff, ts3conn, clid, username_cache, event, invokername,
                   stop_event, discord_to_ts_queue, scheduled,
                   ts_to_discord_queue, hpc, relay, clientClosed, msgsLeft,
                   eventsLeft, readyLeft, whoamiReply, slept, slid, wasActive,
                   taken, sentCount, prevAny, lookedUp, logouts, gateway,
                   webhook, mirrored, origin, wire_in, wire_out, wire_pc,
                   relaySleeping, relayLog, nickname, kickOutcomes, kick,
                   inFlight>>

\* lines 314-325: the name with one more suffix; when it is set it becomes
\* self.nickname, and any failure raises
FallbackNickname ==
    /\ pc = "fallback"
    /\ \/ /\ Proceed("whoami") /\ Did("name")
          /\ Called(nickname + 1, "ok")
          /\ nickname' = nickname + 1
       \/ /\ Raise /\ NotDone
          /\ Called(nickname + 1, "error")
          /\ nickname' = nickname
    /\ UNCHANGED <<backoff, ts3conn, attempt, clid, username_cache, event,
                   invokername, stop_event, discord_to_ts_queue, scheduled,
                   ts_to_discord_queue, hpc, relay, clientClosed, msgsLeft,
                   eventsLeft, readyLeft, whoamiReply, slept, slid, wasActive,
                   taken, sentCount, prevAny, lookedUp, logouts, gateway,
                   webhook, mirrored, origin, wire_in, wire_out, wire_pc,
                   relaySleeping, relayLog, kickOutcomes, kick, inFlight>>

\* self.clid keeps the value it had
WhoamiStale ==
    /\ pc = "whoami"
    /\ \/ /\ Proceed("register")
          /\ Did("whoami")
          /\ \E r \in SenderIds : whoamiReply' = r
       \/ /\ Raise
          /\ NotDone
          /\ whoamiReply' = whoamiReply
    /\ UNCHANGED <<backoff, ts3conn, attempt, clid, username_cache, event,
                   invokername, stop_event, discord_to_ts_queue, scheduled,
                   ts_to_discord_queue, hpc, relay, clientClosed, msgsLeft,
                   eventsLeft, readyLeft, slept, slid, wasActive, taken,
                   sentCount, prevAny, lookedUp, logouts, gateway, webhook,
                   mirrored, origin, wire_in, wire_out, wire_pc, relaySleeping,
                   relayLog, nickname, nameCalls, kickOutcomes, kick, inFlight>>

\* lines 329-330: the reply names a client id, or none (read as 0)
Whoami ==
    /\ pc = "whoami"
    /\ \/ /\ Proceed("register")
          /\ Did("whoami")
          /\ \E r \in SenderIds : clid' = r /\ whoamiReply' = r
       \/ /\ Raise
          /\ UNCHANGED <<clid, whoamiReply, completed>>
    /\ UNCHANGED <<backoff, ts3conn, attempt, username_cache, event,
                   invokername, stop_event, discord_to_ts_queue, scheduled,
                   ts_to_discord_queue, hpc, relay, clientClosed, msgsLeft,
                   eventsLeft, readyLeft, slept, slid, wasActive, taken,
                   sentCount, prevAny, lookedUp, logouts, gateway, webhook,
                   mirrored, origin, wire_in, wire_out, wire_pc, relaySleeping,
                   relayLog, nickname, nameCalls, kickOutcomes, kick, inFlight>>

\* lines 347-352: the steady-state loop is reached
EnterLoop ==
    /\ Proceed("loop")
    /\ Did("register")
    /\ wasActive' = TRUE

\* lines 334-336
Register ==
    /\ pc = "register"
    /\ \/ EnterLoop
       \/ /\ Fault
          /\ pc' = "register2"
          /\ UNCHANGED <<wasActive, nOpen, completed>>
    /\ UNCHANGED <<backoff, ts3conn, attempt, clid, username_cache, event,
                   invokername, stop_event, discord_to_ts_queue, scheduled,
                   ts_to_discord_queue, hpc, relay, clientClosed, msgsLeft,
                   eventsLeft, readyLeft, whoamiReply, slept, slid, taken,
                   sentCount, prevAny, lookedUp, logouts, gateway, webhook,
                   mirrored, origin, wire_in, wire_out, wire_pc, relaySleeping,
                   relayLog, nickname, nameCalls, kickOutcomes, kick, inFlight>>

RegisterFallbackIgnored ==
    /\ pc = "register2"
    /\ \/ EnterLoop
       \/ /\ Fault
          /\ pc' = "loop"
          /\ nOpen' = nOpen
          /\ wasActive' = TRUE
          /\ NotDone
    /\ UNCHANGED <<backoff, ts3conn, attempt, clid, username_cache, event,
                   invokername, stop_event, discord_to_ts_queue, scheduled,
                   ts_to_discord_queue, hpc, relay, clientClosed, msgsLeft,
                   eventsLeft, readyLeft, whoamiReply, slept, slid, taken,
                   sentCount, prevAny, lookedUp, logouts, gateway, webhook,
                   mirrored, origin, wire_in, wire_out, wire_pc, relaySleeping,
                   relayLog, nickname, nameCalls, kickOutcomes, kick, inFlight>>

\* lines 337-345
RegisterFallback ==
    /\ pc = "register2"
    /\ \/ EnterLoop
       \/ Raise /\ wasActive' = wasActive /\ NotDone
    /\ UNCHANGED <<backoff, ts3conn, attempt, clid, username_cache, event,
                   invokername, stop_event, discord_to_ts_queue, scheduled,
                   ts_to_discord_queue, hpc, relay, clientClosed, msgsLeft,
                   eventsLeft, readyLeft, whoamiReply, slept, slid, taken,
                   sentCount, prevAny, lookedUp, logouts, gateway, webhook,
                   mirrored, origin, wire_in, wire_out, wire_pc, relaySleeping,
                   relayLog, nickname, nameCalls, kickOutcomes, kick, inFlight>>

(***************************************************************************)
(* TS3BridgeThread.run: the steady-state loop.                             *)
(***************************************************************************)
\* lines 352-368: the loop test, the non-blocking pop and the send
LoopSend ==
    /\ pc = "loop"
    /\ ~StopRequested
    /\ invokername' = NoneStr
    /\ IF discord_to_ts_queue = << >>
       THEN /\ Proceed("poll")
            /\ UNCHANGED <<discord_to_ts_queue, taken, sentCount>>
       ELSE LET msg == Head(discord_to_ts_queue)
            IN  /\ discord_to_ts_queue' = DqGet(discord_to_ts_queue)
                /\ taken' = taken \cup {msg.id}
                /\ \/ /\ Proceed("poll")
                      /\ sentCount' = [sentCount EXCEPT ![msg.id] = @ + 1]
                   \/ /\ Raise
                      /\ sentCount' = sentCount
    /\ UNCHANGED <<backoff, ts3conn, attempt, clid, username_cache, event,
                   stop_event, scheduled, ts_to_discord_queue, hpc, relay,
                   clientClosed, msgsLeft, eventsLeft, readyLeft, whoamiReply,
                   slept, slid, wasActive, prevAny, lookedUp, logouts, gateway,
                   webhook, mirrored, origin, wire_in, wire_out, wire_pc,
                   relaySleeping, relayLog, completed, nickname, nameCalls,
                   kickOutcomes, kick, inFlight>>

\* line 352 with the stop flag set: the loop is left
LoopExit ==
    /\ pc = "loop"
    /\ StopRequested
    /\ pc' = "after"
    /\ invokername' = NoneStr
    /\ UNCHANGED <<backoff, ts3conn, nOpen, attempt, clid, username_cache,
                   event, stop_event, discord_to_ts_queue, scheduled,
                   ts_to_discord_queue, hpc, relay, clientClosed, msgsLeft,
                   eventsLeft, readyLeft, faultsLeft, whoamiReply, slept, slid,
                   wasActive, taken, sentCount, prevAny, lookedUp, logouts,
                   gateway, webhook, mirrored, origin, wire_in, wire_out,
                   wire_pc, relaySleeping, relayLog, completed, nickname,
                   nameCalls, kickOutcomes, kick, inFlight>>

\* lines 371-374: a timeout is no event; any other error is raised
WaitForEvent ==
    /\ pc = "poll"
    /\ \/ /\ \E e \in {NoEvent, OtherEvent} : event' = e
          /\ Proceed("handle")
          /\ eventsLeft' = eventsLeft
       \/ /\ eventsLeft > 0
          /\ \E e \in TextEvents : event' = e
          /\ eventsLeft' = eventsLeft - 1
          /\ Proceed("handle")
       \/ /\ Raise
          /\ UNCHANGED <<event, eventsLeft>>
    /\ UNCHANGED <<backoff, ts3conn, attempt, clid, username_cache, invokername,
                   stop_event, discord_to_ts_queue, scheduled,
                   ts_to_discord_queue, hpc, relay, clientClosed, msgsLeft,
                   readyLeft, whoamiReply, slept, slid, wasActive, taken,
                   sentCount, prevAny, lookedUp, logouts, gateway, webhook,
                   mirrored, origin, wire_in, wire_out, wire_pc, relaySleeping,
                   relayLog, completed, nickname, nameCalls, kickOutcomes, kick,
                   inFlight>>

FinishEventNamedOnly(name0) ==
    /\ invokername' = name0
    /\ prevAny' = IF Falsy(name0) THEN prevAny ELSE Put(prevAny, event.invokerid, name0)
    /\ event' = NoEvent
    /\ IF IsOwn(event.invokerid)
       THEN /\ pc' = "loop"
            /\ scheduled' = scheduled
       ELSE /\ pc' = "keepalive"
            /\ scheduled' = IF Falsy(name0) THEN scheduled
                            ELSE Append(scheduled, Bridged(name0, CleanBody(event.msg)))

\* lines 438-465: the placeholder, the check for the bridge's own id, and the
\* hand-off of the bridged text to the asyncio loop.  The locals event and
\* invokername are written before they are read in every iteration: event is
\* reset here, invokername at the next loop test.
FinishEvent(name0) ==
    LET id   == event.invokerid
        name == IF Falsy(name0) THEN Placeholder(id) ELSE name0
    IN  /\ invokername' = name
        /\ prevAny' = IF Falsy(name0) THEN prevAny ELSE Put(prevAny, id, name0)
        /\ event' = NoEvent
        /\ IF IsOwn(id)
           THEN /\ pc' = "loop"
                /\ scheduled' = scheduled
           ELSE /\ pc' = "keepalive"
                /\ scheduled' = Append(scheduled, Bridged(name, CleanBody(event.msg)))

\* lines 376-402: the event's type, the FIRST and the SECOND CHECK
HandleEvent ==
    /\ pc = "handle"
    /\ IF event.event # "notifytextmessage"
       THEN /\ pc' = "keepalive"
            /\ event' = NoEvent
            /\ UNCHANGED <<invokername, prevAny, scheduled>>
       ELSE LET name == SecondCheck(FirstCheck(event.names), event.invokerid,
                                    username_cache)
            IN  IF Falsy(name) /\ event.invokerid > 0
                THEN /\ pc' = "clientinfo"
                     /\ UNCHANGED <<event, invokername, prevAny, scheduled>>
                ELSE FinishEvent(name)
    /\ UNCHANGED <<backoff, ts3conn, nOpen, attempt, clid, username_cache,
                   stop_event, discord_to_ts_queue, ts_to_discord_queue, hpc,
                   relay, clientClosed, msgsLeft, eventsLeft, readyLeft,
                   faultsLeft, whoamiReply, slept, slid, wasActive, taken,
                   sentCount, lookedUp, logouts, gateway, webhook, mirrored,
                   origin, wire_in, wire_out, wire_pc, relaySleeping, relayLog,
                   completed, nickname, nameCalls, kickOutcomes, kick, inFlight>>

\* lines 404-436: the THIRD CHECK; every failure of the lookup is caught
ClientInfo ==
    /\ pc = "clientinfo"
    /\ \E reply \in ClientInfoReplies :
         LET id   == event.invokerid
             name == ThirdCheckName(reply, id, username_cache)
         IN  /\ username_cache' = ThirdCheckCache(reply, id, username_cache)
             /\ lookedUp' = IF reply.kind = "ok" /\ ~Falsy(name)
                            THEN Put(lookedUp, id, name)
                            ELSE lookedUp
             /\ FinishEvent(name)
    /\ UNCHANGED <<backoff, ts3conn, nOpen, attempt, clid, stop_event,
                   discord_to_ts_queue, ts_to_discord_queue, hpc, relay,
                   clientClosed, msgsLeft, eventsLeft, readyLeft, faultsLeft,
                   whoamiReply, slept, slid, wasActive, taken, sentCount,
                   logouts, gateway, webhook, mirrored, origin, wire_in,
                   wire_out, wire_pc, relaySleeping, relayLog, completed,
                   nickname, nameCalls, kickOutcomes, kick, inFlight>>

\* lines 467-475: when more than 45 s passed since the last keepalive,
\* version() is called; its failure breaks out of the loop
Keepalive ==
    /\ pc = "keepalive"
    /\ \/ NoFault /\ pc' = "loop"
       \/ Fault /\ pc' = "after"
    /\ UNCHANGED <<backoff, ts3conn, nOpen, attempt, clid, username_cache,
                   event, invokername, stop_event, discord_to_ts_queue,
                   scheduled, ts_to_discord_queue, hpc, relay, clientClosed,
                   msgsLeft, eventsLeft, readyLeft, whoamiReply, slept, slid,
                   wasActive, taken, sentCount, prevAny, lookedUp, logouts,
                   gateway, webhook, mirrored, origin, wire_in, wire_out,
                   wire_pc, relaySleeping, relayLog, completed, nickname,
                   nameCalls, kickOutcomes, kick, inFlight>>

(***************************************************************************)
(* Leaving a connection: cleanup_connection and the backoff.               *)
(***************************************************************************)
\* self.ts3conn.logout() of line 207; an AttributeError when the other
\* context has cleared the handle meanwhile
LogoutCall == logouts' = IF ts3conn THEN logouts + 1 ELSE logouts

\* lines 477-480: after the loop; with the stop flag set, line 204 of
\* cleanup_connection
AfterLoop ==
    /\ pc = "after"
    /\ IF StopRequested
       THEN IF ts3conn
            THEN pc' = "logout_s" /\ nOpen' = nOpen
            ELSE pc' = "done" /\ nOpen' = WithExit(nOpen)
       ELSE pc' = "backoff" /\ nOpen' = WithExit(nOpen)
    /\ UNCHANGED <<backoff, ts3conn, attempt, clid, username_cache, event,
                   invokername, stop_event, discord_to_ts_queue, scheduled,
                   ts_to_discord_queue, hpc, relay, clientClosed, msgsLeft,
                   eventsLeft, readyLeft, faultsLeft, whoamiReply, slept, slid,
                   wasActive, taken, sentCount, prevAny, lookedUp, logouts,
                   gateway, webhook, mirrored, origin, wire_in, wire_out,
                   wire_pc, relaySleeping, relayLog, completed, nickname,
                   nameCalls, kickOutcomes, kick, inFlight>>

\* the exception ends run()
ExceptHandlerFatal ==
    /\ pc = "except"
    /\ pc' = "done"
    /\ UNCHANGED <<backoff, ts3conn, nOpen, attempt, clid, username_cache,
                   event, invokername, stop_event, discord_to_ts_queue,
                   scheduled, ts_to_discord_queue, hpc, relay, clientClosed,
                   msgsLeft, eventsLeft, readyLeft, faultsLeft, whoamiReply,
                   slept, slid, wasActive, taken, sentCount, prevAny, lookedUp,
                   logouts, gateway, webhook, mirrored, origin, wire_in,
                   wire_out, wire_pc, relaySleeping, relayLog, completed,
                   nickname, nameCalls, kickOutcomes, kick, inFlight>>

\* lines 482-484: the handler of every exception; line 204
ExceptHandler ==
    /\ pc = "except"
    /\ pc' = IF ts3conn THEN "logout_e" ELSE "backoff"
    /\ UNCHANGED <<backoff, ts3conn, nOpen, attempt, clid, username_cache,
                   event, invokername, stop_event, discord_to_ts_queue,
                   scheduled, ts_to_discord_queue, hpc, relay, clientClosed,
                   msgsLeft, eventsLeft, readyLeft, faultsLeft, whoamiReply,
                   slept, slid, wasActive, taken, sentCount, prevAny, lookedUp,
                   logouts, gateway, webhook, mirrored, origin, wire_in,
                   wire_out, wire_pc, relaySleeping, relayLog, completed,
                   nickname, nameCalls, kickOutcomes, kick, inFlight>>

\* lines 205-210, called by run()
ThreadLogout ==
    /\ pc \in {"logout_s", "logout_e"}
    /\ LogoutCall
    /\ pc' = IF pc = "logout_s" THEN "finally_s" ELSE "finally_e"
    /\ UNCHANGED <<backoff, ts3conn, nOpen, attempt, clid, username_cache,
                   event, invokername, stop_event, discord_to_ts_queue,
                   scheduled, ts_to_discord_queue, hpc, relay, clientClosed,
                   msgsLeft, eventsLeft, readyLeft, faultsLeft, whoamiReply,
                   slept, slid, wasActive, taken, sentCount, prevAny, lookedUp,
                   gateway, webhook, mirrored, origin, wire_in, wire_out,
                   wire_pc, relaySleeping, relayLog, completed, nickname,
                   nameCalls, kickOutcomes, kick, inFlight>>

\* lines 211-212, called by run(); then line 480 or line 486
ThreadFinally ==
    /\ pc \in {"finally_s", "finally_e"}
    /\ ts3conn' = FALSE
    /\ IF pc = "finally_s"
       THEN pc' = "done" /\ nOpen' = WithExit(nOpen)
       ELSE pc' = "backoff" /\ nOpen' = nOpen
    /\ UNCHANGED <<backoff, attempt, clid, username_cache, event, invokername,
                   stop_event, discord_to_ts_queue, scheduled,
                   ts_to_discord_queue, hpc, relay, clientClosed, msgsLeft,
                   eventsLeft, readyLeft, faultsLeft, whoamiReply, slept, slid,
                   wasActive, taken, sentCount, prevAny, lookedUp, logouts,
                   gateway, webhook, mirrored, origin, wire_in, wire_out,
                   wire_pc, relaySleeping, relayLog, completed, nickname,
                   nameCalls, kickOutcomes, kick, inFlight>>

\* the history of delays slept
Slept(d) ==
    /\ slept' = IF Len(slept) < SleepWindow THEN Append(slept, d)
                ELSE Append(Tail(slept), d)
    /\ slid' = (slid \/ Len(slept) >= SleepWindow)

\* lines 486-490
BackoffSleep ==
    /\ pc = "backoff"
    /\ IF StopRequested
       THEN pc' = "done" /\ UNCHANGED <<slept, slid>>
       ELSE pc' = "sleeping" /\ Slept(backoff)
    /\ UNCHANGED <<backoff, ts3conn, nOpen, attempt, clid, username_cache,
                   event, invokername, stop_event, discord_to_ts_queue,
                   scheduled, ts_to_discord_queue, hpc, relay, clientClosed,
                   msgsLeft, eventsLeft, readyLeft, faultsLeft, whoamiReply,
                   wasActive, taken, sentCount, prevAny, lookedUp, logouts,
                   gateway, webhook, mirrored, origin, wire_in, wire_out,
                   wire_pc, relaySleeping, relayLog, completed, nickname,
                   nameCalls, kickOutcomes, kick, inFlight>>

\* lines 490-491: the sleep is over
BackoffWake ==
    /\ pc = "sleeping"
    /\ backoff' = NextBackoff(backoff)
    /\ wasActive' = FALSE
    /\ pc' = "top"
    /\ UNCHANGED <<ts3conn, nOpen, attempt, clid, username_cache, event,
                   invokername, stop_event, discord_to_ts_queue, scheduled,
                   ts_to_discord_queue, hpc, relay, clientClosed, msgsLeft,
                   eventsLeft, readyLeft, faultsLeft, whoamiReply, slept, slid,
                   taken, sentCount, prevAny, lookedUp, logouts, gateway,
                   webhook, mirrored, origin, wire_in, wire_out, wire_pc,
                   relaySleeping, relayLog, completed, nickname, nameCalls,
                   kickOutcomes, kick, inFlight>>

(***************************************************************************)
(* The signal handler _stop, in the main thread.                           *)
(***************************************************************************)
\* lines 632-636
StopSignal ==
    /\ hpc = "idle"
    /\ stop_event' = TRUE
    /\ hpc' = IF pc # "done" THEN "cleanup" ELSE "done"
    /\ UNCHANGED <<pc, backoff, ts3conn, nOpen, attempt, clid, username_cache,
                   event, invokername, discord_to_ts_queue, scheduled,
                   ts_to_discord_queue, relay, clientClosed, msgsLeft,
                   eventsLeft, readyLeft, faultsLeft, whoamiReply, slept, slid,
                   wasActive, taken, sentCount, prevAny, lookedUp, logouts,
                   gateway, webhook, mirrored, origin, wire_in, wire_out,
                   wire_pc, relaySleeping, relayLog, completed, nickname,
                   nameCalls, kickOutcomes, kick, inFlight>>

\* line 638, line 204
HandlerCleanup ==
    /\ hpc = "cleanup"
    /\ hpc' = IF ts3conn THEN "logout" ELSE "done"
    /\ UNCHANGED <<pc, backoff, ts3conn, nOpen, attempt, clid, username_cache,
                   event, invokername, stop_event, discord_to_ts_queue,
                   scheduled, ts_to_discord_queue, relay, clientClosed,
                   msgsLeft, eventsLeft, readyLeft, faultsLeft, whoamiReply,
                   slept, slid, wasActive, taken, sentCount, prevAny, lookedUp,
                   logouts, gateway, webhook, mirrored, origin, wire_in,
                   wire_out, wire_pc, relaySleeping, relayLog, completed,
                   nickname, nameCalls, kickOutcomes, kick, inFlight>>

\* lines 205-210
HandlerLogout ==
    /\ hpc = "logout"
    /\ LogoutCall
    /\ hpc' = "finally"
    /\ UNCHANGED <<pc, backoff, ts3conn, nOpen, attempt, clid, username_cache,
                   event, invokername, stop_event, discord_to_ts_queue,
                   scheduled, ts_to_discord_queue, relay, clientClosed,
                   msgsLeft, eventsLeft, readyLeft, faultsLeft, whoamiReply,
                   slept, slid, wasActive, taken, sentCount, prevAny, lookedUp,
                   gateway, webhook, mirrored, origin, wire_in, wire_out,
                   wire_pc, relaySleeping, relayLog, completed, nickname,
                   nameCalls, kickOutcomes, kick, inFlight>>

\* lines 211-212, then the join of line 639
HandlerFinally ==
    /\ hpc = "finally"
    /\ ts3conn' = FALSE
    /\ hpc' = "done"
    /\ UNCHANGED <<pc, backoff, nOpen, attempt, clid, username_cache, event,
                   invokername, stop_event, discord_to_ts_queue, scheduled,
                   ts_to_discord_queue, relay, clientClosed, msgsLeft,
                   eventsLeft, readyLeft, faultsLeft, whoamiReply, slept, slid,
                   wasActive, taken, sentCount, prevAny, lookedUp, logouts,
                   gateway, webhook, mirrored, origin, wire_in, wire_out,
                   wire_pc, relaySleeping, relayLog, completed, nickname,
                   nameCalls, kickOutcomes, kick, inFlight>>

(***************************************************************************)
(* The Discord client, on the asyncio loop.                                *)
(***************************************************************************)
\* lines 502-512: every ready event whose handler finds the channel creates
\* a relay_ts_to_discord task (when fetch_channel raises, the handler ends
\* before line 512 and nothing changes)
on_ready ==
    /\ readyLeft > 0
    /\ ~clientClosed
    /\ readyLeft' = readyLeft - 1
    /\ relay' = relay + 1
    /\ UNCHANGED <<pc, backoff, ts3conn, nOpen, attempt, clid, username_cache,
                   event, invokername, stop_event, discord_to_ts_queue,
                   scheduled, ts_to_discord_queue, hpc, clientClosed, msgsLeft,
                   eventsLeft, faultsLeft, whoamiReply, slept, slid, wasActive,
                   taken, sentCount, prevAny, lookedUp, logouts, gateway,
                   webhook, mirrored, origin, wire_in, wire_out, wire_pc,
                   relaySleeping, relayLog, completed, nickname, nameCalls,
                   kickOutcomes, kick, inFlight>>

\* lines 560-608: a message that fails a filter, or has neither content nor
\* attachment, is ignored; the bridged text is put on the queue; with a
\* webhook the raw text is mirrored, and a failure of that send is caught
on_message ==
    /\ msgsLeft > 0
    /\ ~clientClosed
    /\ msgsLeft' = msgsLeft - 1
    /\ \E message \in gateway :
         /\ origin' = Put(origin, msgsLeft, message)
         /\ IF PassesFilters(message) /\ Parts(message) # << >>
            THEN /\ discord_to_ts_queue' =
                      Append(discord_to_ts_queue,
                             [id |-> msgsLeft, text |-> BridgedToTs(message)])
                 /\ sentCount' = Put(sentCount, msgsLeft, 0)
                 /\ IF webhook
                    THEN \E ok \in BOOLEAN :
                           mirrored' = IF ok THEN Append(mirrored, BridgedToWebhook(message))
                                       ELSE mirrored
                    ELSE mirrored' = mirrored
            ELSE UNCHANGED <<discord_to_ts_queue, sentCount, mirrored>>
    /\ UNCHANGED <<pc, backoff, ts3conn, nOpen, attempt, clid, username_cache,
                   event, invokername, stop_event, scheduled,
                   ts_to_discord_queue, hpc, relay, clientClosed, eventsLeft,
                   readyLeft, faultsLeft, whoamiReply, slept, slid, wasActive,
                   taken, prevAny, lookedUp, logouts, gateway, webhook, wire_in,
                   wire_out, wire_pc, relaySleeping, relayLog, completed,
                   nickname, nameCalls, kickOutcomes, kick, inFlight>>

\* line 465: the loop runs the coroutine ts_to_discord_queue.put(bridged)
\* that run_coroutine_threadsafe handed to it
RunScheduledPut ==
    /\ scheduled # << >>
    /\ ts_to_discord_queue' = Append(ts_to_discord_queue, Head(scheduled))
    /\ scheduled' = Tail(scheduled)
    /\ UNCHANGED <<pc, backoff, ts3conn, nOpen, attempt, clid, username_cache,
                   event, invokername, stop_event, discord_to_ts_queue, hpc,
                   relay, clientClosed, msgsLeft, eventsLeft, readyLeft,
                   faultsLeft, whoamiReply, slept, slid, wasActive, taken,
                   sentCount, prevAny, lookedUp, logouts, gateway, webhook,
                   mirrored, origin, wire_in, wire_out, wire_pc, relaySleeping,
                   relayLog, completed, nickname, nameCalls, kickOutcomes, kick,
                   inFlight>>

\* what can become of an item a task took (lines 522-533): "posted" is a
\* channel send that succeeded, with the webhook send (if a webhook is
\* configured) succeeding too; "mirror_failed" a channel send that
\* succeeded and a webhook send that raised; "failed" a channel send that
\* raised
PostOutcomes(hook) ==
    IF hook THEN {"posted", "mirror_failed", "failed"} ELSE {"posted", "failed"}

RelayEndedByFailure(n, outcome) == IF outcome = "failed" THEN n - 1 ELSE n

\* lines 519, 531-533: the except clause is inside the while loop, so the
\* number of tasks is what it was, whatever became of the item
RelayTasksAfter(n, outcome) == n

\* s without its k-th element
Without(s, k) == SubSeq(s, 1, k - 1) \o SubSeq(s, k + 1, Len(s))

\* lines 519-521: a task that waits on the queue takes the oldest item
RelayTake ==
    /\ relay - relaySleeping - Len(inFlight) > 0
    /\ ~clientClosed
    /\ ts_to_discord_queue # << >>
    /\ inFlight' = Append(inFlight, Head(ts_to_discord_queue))
    /\ ts_to_discord_queue' = Tail(ts_to_discord_queue)
    /\ UNCHANGED <<pc, backoff, ts3conn, nOpen, attempt, clid, username_cache,
                   event, invokername, stop_event, discord_to_ts_queue,
                   scheduled, hpc, relay, clientClosed, msgsLeft, eventsLeft,
                   readyLeft, faultsLeft, whoamiReply, slept, slid, wasActive,
                   taken, sentCount, prevAny, lookedUp, logouts, gateway,
                   webhook, mirrored, origin, wire_in, wire_out, wire_pc,
                   relaySleeping, relayLog, completed, nickname, nameCalls,
                   kickOutcomes, kick>>

\* lines 522-533: the awaited channel send of one of the tasks, and then
\* its webhook send, come to an end; tasks that await at the same time end
\* in any order.  A failing webhook send is logged; a failing channel send
\* is logged, the item is gone and the task pauses for a second
RelayPost ==
    /\ \E k \in 1..Len(inFlight), outcome \in PostOutcomes(webhook) :
         /\ relayLog' = Append(relayLog, [text |-> inFlight[k], outcome |-> outcome])
         /\ inFlight' = Without(inFlight, k)
         /\ relay' = RelayTasksAfter(relay, outcome)
         /\ relaySleeping' = IF outcome = "failed" THEN relaySleeping + 1
                             ELSE relaySleeping
         /\ mirrored' = IF webhook /\ outcome = "posted"
                        THEN Append(mirrored, inFlight[k])
                        ELSE mirrored
    /\ UNCHANGED <<pc, backoff, ts3conn, nOpen, attempt, clid, username_cache,
                   event, invokername, stop_event, discord_to_ts_queue,
                   scheduled, ts_to_discord_queue, hpc, clientClosed, msgsLeft,
                   eventsLeft, readyLeft, faultsLeft, whoamiReply, slept, slid,
                   wasActive, taken, sentCount, prevAny, lookedUp, logouts,
                   gateway, webhook, origin, wire_in, wire_out, wire_pc,
                   completed, nickname, nameCalls, kickOutcomes, kick>>

\* lines 516-533: the tasks created by on_ready
relay_ts_to_discord == RelayTake \/ RelayPost

\* line 533: the pause is over, the task is back at the loop test
RelayWake ==
    /\ relaySleeping > 0
    /\ relaySleeping' = relaySleeping - 1
    /\ UNCHANGED <<pc, backoff, ts3conn, nOpen, attempt, clid, username_cache,
                   event, invokername, stop_event, discord_to_ts_queue,
                   scheduled, ts_to_discord_queue, hpc, relay, clientClosed,
                   msgsLeft, eventsLeft, readyLeft, faultsLeft, whoamiReply,
                   slept, slid, wasActive, taken, sentCount, prevAny, lookedUp,
                   logouts, gateway, webhook, mirrored, origin, wire_in,
                   wire_out, wire_pc, relayLog, completed, nickname, nameCalls,
                   kickOutcomes, kick, inFlight>>

(***************************************************************************)
(* Specifications.                                                         *)
(***************************************************************************)
\* connecting, negotiating, the loop, leaving a connection, the backoff
Supervisor ==
    \/ Connect \/ Login \/ Use \/ FreeNickname \/ SetNickname
    \/ FallbackNickname \/ Whoami \/ Register \/ RegisterFallback
    \/ LoopSend \/ WaitForEvent \/ HandleEvent \/ Keepalive
    \/ AfterLoop \/ ExceptHandler \/ ThreadLogout \/ ThreadFinally
    \/ BackoffSleep \/ BackoffWake

\* what run() does once the stop flag is set
Stopping == RunExit \/ LoopExit

ThreadNext == Supervisor \/ Stopping \/ ClientInfo

HandlerNext == HandlerCleanup \/ HandlerLogout \/ HandlerFinally

Next ==
    \/ ThreadNext \/ StopSignal \/ HandlerNext
    \/ on_ready \/ on_message \/ RunScheduledPut \/ relay_ts_to_discord
    \/ RelayWake

\* the whole program
Spec == Init /\ [][Next]_vars

\* The supervisor, the shutdown and the Discord -> TS direction: no
\* channel-text event arrives.
NextSup ==
    \/ Supervisor \/ Stopping \/ StopSignal \/ HandlerNext
    \/ on_ready \/ on_message

SpecSup == InitSup /\ [][NextSup]_vars

\* The same without ready events.
NextFair == Supervisor \/ Stopping \/ StopSignal \/ HandlerNext \/ on_message

\* The thread and the handler, once entered, keep running; the signal and
\* the messages of the environment are not forced.
FairSpecSup ==
    /\ InitFair
    /\ [][NextFair]_vars
    /\ WF_vars(Supervisor \/ Stopping)
    /\ WF_vars(HandlerNext)

\* The supervisor and the TS -> Discord direction: no shutdown and no
\* Discord message.
NextEv == Supervisor \/ ClientInfo \/ RunScheduledPut

SpecEv == InitEv /\ [][NextEv]_vars

\* The TS -> Discord direction with its consumer: a connection on which
\* nothing fails, ready events, and posts that succeed or fail, with and
\* without a webhook.  A relay task, once it can run, keeps running.
InitRelay == \E hook \in BOOLEAN :
                InitProgram(<<0, MaxEvents, MaxReady, 0>>, DefaultGateway, hook)

Negotiate == Connect \/ Login \/ Use \/ FreeNickname \/ SetNickname
                \/ Whoami \/ Register

NextRelay ==
    \/ Negotiate
    \/ LoopSend \/ WaitForEvent \/ HandleEvent \/ ClientInfo \/ Keepalive
    \/ RunScheduledPut \/ on_ready \/ relay_ts_to_discord \/ RelayWake

FairSpecRelay ==
    /\ InitRelay
    /\ [][NextRelay]_vars
    /\ WF_vars(relay_ts_to_discord \/ RelayWake)

\* The supervisor alone, on a server where the name may be held by another
\* client that can or cannot be kicked: no message, no event, no shutdown.
InitNick ==
    /\ InitState(<<0, 0, 0, MaxNickFaults>>, DefaultGateway, FALSE)
    /\ WireIdle
    /\ kickOutcomes = KickOutcomes

SpecNick == InitNick /\ [][Supervisor]_vars

\* The dispatcher of Discord messages alone, with every kind of message and
\* with and without a webhook.
InitMsg == \E hook \in BOOLEAN : InitProgram(<<MaxMsgs, 0, 0, 0>>, AllMessages, hook)

SpecMsg == InitMsg /\ [][on_message]_vars

\* ts_encode and ts_decode applied in turn to one text, the program at rest
WireEncode ==
    /\ wire_pc = "raw"
    /\ wire_out' = ts_encode(wire_in)
    /\ wire_pc' = "encoded"
    /\ UNCHANGED <<pc, backoff, ts3conn, nOpen, attempt, clid, username_cache,
                   event, invokername, stop_event, discord_to_ts_queue,
                   scheduled, ts_to_discord_queue, hpc, relay, clientClosed,
                   msgsLeft, eventsLeft, readyLeft, faultsLeft, whoamiReply,
                   slept, slid, wasActive, taken, sentCount, prevAny, lookedUp,
                   logouts, gateway, webhook, mirrored, origin, wire_in,
                   relaySleeping, relayLog, completed, nickname, nameCalls,
                   kickOutcomes, kick, inFlight>>

WireDecode ==
    /\ wire_pc = "encoded"
    /\ wire_out' = ts_decode(wire_out)
    /\ wire_pc' = "decoded"
    /\ UNCHANGED <<pc, backoff, ts3conn, nOpen, attempt, clid, username_cache,
                   event, invokername, stop_event, discord_to_ts_queue,
                   scheduled, ts_to_discord_queue, hpc, relay, clientClosed,
                   msgsLeft, eventsLeft, readyLeft, faultsLeft, whoamiReply,
                   slept, slid, wasActive, taken, sentCount, prevAny, lookedUp,
                   logouts, gateway, webhook, mirrored, origin, wire_in,
                   relaySleeping, relayLog, completed, nickname, nameCalls,
                   kickOutcomes, kick, inFlight>>

InitWire ==
    /\ InitState(<<0, 0, 0, 0>>, {}, FALSE)
    /\ NameFree
    /\ wire_in \in WireStrings
    /\ wire_out = wire_in
    /\ wire_pc = "raw"

SpecWire == InitWire /\ [][WireEncode \/ WireDecode]_vars

(***************************************************************************)
(* Properties.                                                             *)
(***************************************************************************)
\* the positions of run() inside the block of the with statement
InWith == {"login", "use", "clientlist", "nick", "fallback", "whoami",
           "register", "register2", "loop", "poll", "handle", "clientinfo",
           "keepalive", "after", "logout_s", "finally_s"}

\* a channel-text event is being handled
HandlingText ==
    pc \in {"handle", "clientinfo"} /\ event.event = "notifytextmessage"

\* the handling of the event ends in this step
Handled == pc \in {"handle", "clientinfo"} /\ pc' \notin {"handle", "clientinfo"}

\* the sender of the event is the bridge itself: the id that whoami
\* returned on this connection
FromSelf == whoamiReply # 0 /\ event.invokerid = whoamiReply

\* what waits for Discord, oldest first
Outbound == ts_to_discord_queue \o scheduled

\* C1: anti-loop.  Whatever events arrive and however often the bridge
\* reconnects, handling a channel-text event whose sender id is the id that
\* whoami returned on the current connection puts nothing on the
\* TS -> Discord queue; and inside the loop the id compared with is the one
\* of the current connection, never one of an earlier connection.
C1_AntiLoop ==
    /\ [][(HandlingText /\ FromSelf) => Outbound' = Outbound]_vars
    /\ [](pc \in {"loop", "poll", "handle", "clientinfo", "keepalive"}
            => clid = whoamiReply)

\* an event of the bridge's own was dropped on a connection made after a
\* reconnect, whose id differs from an id known before
C1_Witness ==
    /\ pc = "loop"
    /\ invokername # NoneStr
    /\ Outbound = << >>
    /\ eventsLeft = MaxEvents - 1
    /\ whoamiReply # 0
    /\ backoff > InitialBackoff

C3_Backoff ==
    /\ backoff >= InitialBackoff
    /\ backoff <= BackoffCeiling
    /\ (slept # << >> /\ ~slid) => slept[1] = InitialBackoff
    /\ \A i \in 1..Len(slept) : slept[i] <= BackoffCeiling
    /\ \A i \in 1..(Len(slept) - 1) :
         /\ slept[i + 1] = Min(2 * slept[i], BackoffCeiling)
         /\ slept[i] <= slept[i + 1]

\* the ceiling was slept twice in a row
C3_Witness ==
    /\ Len(slept) = 2
    /\ slept[1] = BackoffCeiling
    /\ slept[2] = BackoffCeiling

\* C4: after an attempt that reached the steady-state loop, the delay
\* slept after the next failure is the initial delay.
C4_ResetAfterActive ==
    (pc = "sleeping" /\ wasActive) => slept[Len(slept)] = InitialBackoff

\* C5: at most one query connection is open; outside the with block none
\* is; a connection attempt starts only when none is open.
C5_OneConnection ==
    /\ [](nOpen \in {0, 1})
    /\ [](pc \notin InWith => nOpen = 0)
    /\ [](pc \in InWith \ {"after"} => nOpen = 1)
    /\ [][(pc = "top" /\ pc' # "top") => nOpen = 0]_vars

\* a second connection is open after the first was left
C5_Witness ==
    /\ nOpen = 1
    /\ pc = "loop"
    /\ Len(slept) = 1

C7_BothStop == stop_event ~> (pc = "done" /\ clientClosed)

\* C8: a failure is never fatal.  run() returns only when the stop flag is
\* set; a failure in any phase leaves the connection; unless the flag is
\* set meanwhile, the failure is followed by a sleep of the backoff delay,
\* and the sleep by a new connection attempt.
C8_Recover ==
    /\ [](pc = "done" => stop_event)
    /\ [](pc \in {"except", "logout_e", "finally_e", "backoff", "sleeping"}
            => nOpen = 0)
    /\ (pc \in {"except", "after"}) ~> (stop_event \/ pc = "sleeping")
    /\ (pc = "sleeping") ~> (stop_event \/ pc \in {"login", "except"})
    /\ [][(pc = "sleeping" /\ pc' \in {"login", "except"}) => FALSE]_vars
    /\ [][(pc \in {"except", "after"} /\ ~stop_event /\ pc' = "top") => FALSE]_vars

\* a connection was opened after five failures
C8_Witness ==
    /\ pc = "login"
    /\ ~stop_event
    /\ backoff = BackoffCeiling
    /\ faultsLeft = MaxFaults - 5

\* the candidate name fields of the event give no name
NoNameInEvent == Falsy(FirstCheck(event.names))

\* the lookup of this step gave no name: it failed, carried no data, or
\* carried an empty nickname
LookupFailed ==
    pc = "clientinfo" /\ pc' # "clientinfo" /\ username_cache' = username_cache

\* for every sender id resolved before by any step, a resolution with no
\* name in the event and a failing lookup returns the name resolved before
C9_Original ==
    [][(LookupFailed /\ event.invokerid \in DOMAIN prevAny)
         => invokername' = prevAny[event.invokerid]]_vars

\* C9 (amended): for every sender id that a direct lookup resolved to a
\* non-empty name before, a later resolution of the id with no name in the
\* event returns that name; no lookup is made, so that it does not matter
\* whether a lookup would fail.
C9_CachedName ==
    [][(pc = "handle" /\ pc' # "handle" /\ HandlingText /\ NoNameInEvent
          /\ event.invokerid \in DOMAIN lookedUp)
         => /\ pc' # "clientinfo"
            /\ invokername' = lookedUp[event.invokerid]
            /\ invokername' = username_cache[event.invokerid]]_vars

\* two events of one sender gave the looked-up name: the first by the
\* lookup, the second by the cache
C9_Witness ==
    /\ Cardinality(DOMAIN lookedUp) = 1
    /\ Len(Outbound) = 2
    /\ \A i \in 1..2 : SubSeq(Outbound[i], 1, 6) = <<"*","*","C","y","*","*">>

\* the body that Discord is to see for each wire body
ExpectedBody(msg) ==
    IF msg = BodyHey THEN <<"h","e","y">>
    ELSE IF msg = BodyLine THEN <<"a"," ","b">>
    ELSE msg

\* C10: handling a channel-text event of another sender puts exactly one
\* item on the TS -> Discord queue, "**<name>**: <body>" with the resolved
\* name and the transformed body; for the name "Al" and the body
\* "[b]hey[/b]" the item is "**Al**: hey"; no other step of the thread, and
\* so no event of another type, puts anything on the queue.
C10_OneItem ==
    /\ [][(HandlingText /\ Handled /\ ~FromSelf)
            => Outbound' = Append(Outbound,
                 <<"*","*">> \o invokername' \o <<"*","*",":"," ">>
                   \o ExpectedBody(event.msg))]_vars
    /\ [][(HandlingText /\ Handled /\ ~FromSelf
             /\ event.names[1] = NameAl /\ event.msg = BodyHey)
            => Outbound' = Append(Outbound,
                 <<"*","*","A","l","*","*",":"," ","h","e","y">>)]_vars
    /\ [][~(HandlingText /\ Handled) => Outbound' = Outbound]_vars

\* "**Al**: hey" is on the queue, and a later pass of the loop, with no
\* channel-text event, has put nothing after it
C10_Witness ==
    /\ ts_to_discord_queue = << <<"*","*","A","l","*","*",":"," ","h","e","y">> >>
    /\ scheduled = << >>
    /\ pc = "keepalive"
    /\ eventsLeft = MaxEvents - 1
    /\ invokername = NoneStr

(***************************************************************************)
(* Properties of the Discord side.                                         *)
(***************************************************************************)
\* on_message was called in this step, with this message
Dispatched(message) ==
    msgsLeft' = msgsLeft - 1 /\ origin'[msgsLeft] = message

\* the message "hello" of Al in the bridge channel with one attachment
HelloJpgMessage ==
    [channel |-> "bridge", author |-> "user", webhook_id |-> "none",
     content |-> Hello, attachments |-> <<JpgUrl>>, display_name |-> NameAl]

\* "Al: hello [URL=https://cdn.discordapp.com/a.jpg]Click to show image[/URL]"
HelloJpgBare ==
    <<"A","l",":"," ","h","e","l","l","o"," ","[","U","R","L","=","h","t",
      "t","p","s",":","/","/","c","d","n",".","d","i","s","c","o","r","d",
      "a","p","p",".","c","o","m","/","a",".","j","p","g","]","C","l","i",
      "c","k"," ","t","o"," ","s","h","o","w"," ","i","m","a","g","e","[",
      "/","U","R","L","]">>

\* "Al: hello ([URL=https://cdn.discordapp.com/a.jpg]Click to show image[/URL])"
HelloJpgInParens ==
    <<"A","l",":"," ","h","e","l","l","o"," ","(","[","U","R","L","=","h",
      "t","t","p","s",":","/","/","c","d","n",".","d","i","s","c","o","r",
      "d","a","p","p",".","c","o","m","/","a",".","j","p","g","]","C","l",
      "i","c","k"," ","t","o"," ","s","h","o","w"," ","i","m","a","g","e",
      "[","/","U","R","L","]",")">>

\* the message "hello" with one .jpg attachment puts exactly one item on
\* the Discord -> TS queue: name, colon, text, a space, the link tag, and
\* nothing around the tag
C11_Original ==
    [][Dispatched(HelloJpgMessage)
         => discord_to_ts_queue' =
              Append(discord_to_ts_queue, [id |-> msgsLeft, text |-> HelloJpgBare])]_vars

\* C11 (amended): the message "hello" with one .jpg attachment puts exactly
\* one item on the Discord -> TS queue: name, colon, text, a space, and the
\* link tag in parentheses, the tag holding the full URL as its target.
C11_Item ==
    [][Dispatched(HelloJpgMessage)
         => discord_to_ts_queue' =
              Append(discord_to_ts_queue, [id |-> msgsLeft, text |-> HelloJpgInParens])]_vars

\* the item of that message is on the queue
C11_Witness ==
    \E i \in 1..Len(discord_to_ts_queue) :
        /\ discord_to_ts_queue[i].text = HelloJpgInParens
        /\ origin[discord_to_ts_queue[i].id] = HelloJpgMessage

\* C12: for every text s over the characters that ts_encode escapes, mixed
\* with letters that name escapes, ts_decode(ts_encode(s)) = s.
C12_RoundTrip == wire_pc = "decoded" => wire_out = wire_in

\* the text backslash, s, space came back as it was
C12_Witness ==
    /\ wire_pc = "decoded"
    /\ wire_in = <<"\\", "s", " ">>
    /\ wire_out = wire_in

\* the message is of another channel, or of the bot itself, or of a webhook
Filtered(message) ==
    \/ message.channel = "other"
    \/ message.author = "bot"
    \/ message.webhook_id = "hook"

\* C13: a Discord message of another channel, of the bot itself or of a
\* webhook puts nothing on the Discord -> TS queue and sends nothing to the
\* webhook; whatever messages arrive, every item on the queue stems from a
\* message that passed the three filters.
C13_Filters ==
    /\ [][(msgsLeft' = msgsLeft - 1 /\ Filtered(origin'[msgsLeft]))
            => /\ discord_to_ts_queue' = discord_to_ts_queue
               /\ mirrored' = mirrored]_vars
    /\ [](\A i \in 1..Len(discord_to_ts_queue) :
            ~Filtered(origin[discord_to_ts_queue[i].id]))

\* with a webhook configured, a message "hello" that a webhook posted in
\* the bridge channel was ignored
C13_Witness ==
    /\ webhook
    /\ msgsLeft = MaxMsgs - 1
    /\ origin[MaxMsgs] = [PlainMessage EXCEPT !.webhook_id = "hook"]
    /\ discord_to_ts_queue = << >>
    /\ mirrored = << >>

\* the channel send of an item a relay task took raised
PostFailed ==
    /\ Len(relayLog') = Len(relayLog) + 1
    /\ relayLog'[Len(relayLog')].outcome = "failed"

\* C14: no failure of a post ends a relay task: the item whose post failed
\* is gone from the queue and is neither posted nor put back, the number of
\* tasks never goes down, and once a task exists the queue is drained again
\* and again, whatever posts fail.
C14_RelaySurvives ==
    /\ [][relay' >= relay]_vars
    /\ [][PostFailed => /\ ts_to_discord_queue' = ts_to_discord_queue
                        /\ Len(inFlight') = Len(inFlight) - 1
                        /\ mirrored' = mirrored
                        /\ relay' = relay]_vars
    /\ (relay > 0) ~> (ts_to_discord_queue = << >> /\ inFlight = << >>)

\* the post of the first item failed, and the next item was posted
C14_Witness ==
    /\ Len(relayLog) = 2
    /\ relayLog[1].outcome = "failed"
    /\ relayLog[2].outcome = "posted"
    /\ relay = 1

\* C15: whatever ready events arrive, at most one relay task consumes the
\* TS -> Discord queue.
C15_OneConsumer == relay <= 1

\* the loop took a message off the Discord -> TS queue and the send raised
SendFailed ==
    /\ pc = "loop"
    /\ taken' # taken
    /\ sentCount' = sentCount

\* C16: when the send of a dequeued message fails, the steady-state loop
\* goes on on the same connection: it polls for an event next, and the
\* connection is not left.
C16_SendFailureTolerated ==
    [][SendFailed => /\ pc' = "poll"
                     /\ ts3conn' = ts3conn
                     /\ nOpen' = nOpen]_vars

\* the name the cache holds for the sender of the event, if it holds one,
\* and else "Client_<id>"
CachedOrPlaceholder ==
    IF event.invokerid \in DOMAIN username_cache
         /\ username_cache[event.invokerid] # Empty
    THEN username_cache[event.invokerid]
    ELSE <<"C","l","i","e","n","t","_">> \o IntStr(event.invokerid)

\* C17: when the direct lookup for a channel-text event of another sender
\* raises or gives no name, the thread stays in the steady-state loop on the
\* same connection and exactly one item is put on the TS -> Discord queue
\* for the event, named by the cached name if there is one and else by the
\* placeholder "Client_<id>".
C17_LookupNeverBlocks ==
    [][(LookupFailed /\ ~FromSelf)
         => /\ pc' = "keepalive"
            /\ nOpen' = nOpen
            /\ Outbound' = Append(Outbound,
                 <<"*","*">> \o CachedOrPlaceholder \o <<"*","*",":"," ">>
                   \o ExpectedBody(event.msg))]_vars

\* the lookup for an event of sender 2 gave no name, and "**Client_2**: hey"
\* waits for Discord
C17_Witness ==
    /\ pc = "keepalive"
    /\ DOMAIN lookedUp = {}
    /\ whoamiReply = 1
    /\ Outbound = << <<"*","*","C","l","i","e","n","t","_","2","*","*",":"," ",
                       "h","e","y">> >>

\* the commands of the negotiation, in the order of run()
Negotiated == <<"login", "use", "name", "whoami", "register">>

\* where the thread stands inside the steady-state loop
InLoop == pc \in {"loop", "poll", "handle", "clientinfo", "keepalive"}

\* C18: the thread is in the steady-state loop only on an open connection
\* on which login, the selection of the server, the setting of a name,
\* whoami and the registration succeeded, in that order and once each; no
\* message is taken for sending and no event is polled on a connection
\* that has not gone through all of them.
C18_InOrder ==
    /\ [](InLoop => completed = Negotiated /\ nOpen = 1)
    /\ [][(taken' # taken \/ (pc = "poll" /\ pc' # "poll"))
            => completed = Negotiated /\ nOpen = 1]_vars

\* after a failed attempt, a second connection went through the whole
\* negotiation, sent a message and is about to poll
C18_Witness ==
    /\ pc = "poll"
    /\ slept # << >>
    /\ taken # {}
    /\ \E m \in DOMAIN sentCount : sentCount[m] = 1
    /\ completed = Negotiated

\* C19: every iteration of the steady-state loop comes to the keepalive
\* test of line 468, where the command is issued when the interval has
\* elapsed, whatever event the iteration received, a discarded event of
\* the bridge itself included.
C19_KeepaliveEveryIteration == [][Handled => pc' = "keepalive"]_vars

\* the last clientupdate call of this connection succeeded
NameSet == nameCalls # << >> /\ nameCalls[Len(nameCalls)].result = "ok"

CommandFailed == faultsLeft' < faultsLeft

\* C21: when servernotifyregister is rejected in its first form, the second
\* form is called, once; when that succeeds the thread enters the
\* steady-state loop on the negotiated connection; when it fails too, the
\* connection is left without the loop having run, and the thread comes to
\* the backoff sleep (or ends, when the stop flag is set).
C21_RegisterFallback ==
    /\ [][(pc = "register" /\ CommandFailed)
            => pc' = "register2" /\ nOpen' = nOpen]_vars
    /\ [][(pc' = "register2" /\ pc # "register2") => pc = "register"]_vars
    /\ [][(pc = "register2" /\ pc' # "register2" /\ ~CommandFailed)
            => pc' = "loop" /\ completed' = Negotiated /\ nOpen' = nOpen]_vars
    /\ [][(pc = "register2" /\ CommandFailed)
            => pc' = "except" /\ nOpen' = 0 /\ completed' = completed]_vars
    /\ (pc = "except") ~> (pc \in {"sleeping", "done"})

\* both forms were rejected on a connection that had read its client id,
\* and the thread sleeps before the next attempt
C21_Witness ==
    /\ pc = "sleeping"
    /\ completed = <<"login", "use", "name", "whoami">>
    /\ ~wasActive
    /\ faultsLeft = MaxFaults - 2

\* what a candidate field of the events is once decoded and stripped
DecodedField(field) == IF field = EncodedSpace THEN Empty ELSE field

\* the first candidate field of the event that decodes to a name, if any
PayloadName ==
    IF DecodedField(event.names[1]) # Empty THEN DecodedField(event.names[1])
    ELSE IF DecodedField(event.names[2]) # Empty THEN DecodedField(event.names[2])
    ELSE IF DecodedField(event.names[3]) # Empty THEN DecodedField(event.names[3])
    ELSE NoneStr

\* the cache holds a name for the id
HasName(cache, id) == id \in DOMAIN cache /\ cache[id] # Empty

\* C22: the name a channel-text event is bridged under is the first
\* candidate field of the payload that decodes (and strips) to a non-empty
\* name; else the name the cache holds for the sender; else the name a
\* direct lookup returned, which is in the cache when it is used; else the
\* placeholder "Client_<id>".  A lookup is made only when the payload and
\* the cache gave no name; the cache changes only when a lookup answers
\* with a nickname, and no entry is ever lost or replaced by another name.
C22_ResolutionChain ==
    /\ [][(HandlingText /\ Handled)
            => LET id == event.invokerid
               IN  invokername' =
                     IF PayloadName # NoneStr THEN PayloadName
                     ELSE IF HasName(username_cache', id) THEN username_cache'[id]
                     ELSE <<"C","l","i","e","n","t","_">> \o IntStr(id)]_vars
    /\ [](pc = "clientinfo"
            => /\ PayloadName = NoneStr
               /\ ~HasName(username_cache, event.invokerid))
    /\ [][username_cache' # username_cache
            => /\ pc = "clientinfo"
               /\ lookedUp' # lookedUp \/ username_cache'[event.invokerid] = Empty
               /\ \A i \in DOMAIN lookedUp' : username_cache'[i] = lookedUp'[i]]_vars
    /\ [][\A i \in DOMAIN username_cache :
            /\ i \in DOMAIN username_cache'
            /\ username_cache[i] # Empty => username_cache'[i] = username_cache[i]]_vars

\* a sender was resolved by a lookup to "Cy", which is in the cache, and a
\* later event that carried the name "Al" was bridged under "Al"
C22_Witness ==
    /\ \E i \in DOMAIN username_cache : username_cache[i] = NameCy
    /\ Len(Outbound) = 2
    /\ SubSeq(Outbound[1], 1, 6) = <<"*","*","C","y","*","*">>
    /\ SubSeq(Outbound[2], 1, 6) = <<"*","*","A","l","*","*">>

\* C23: while the thread handles a channel-text event whose sender is the
\* bridge itself, it makes no direct lookup, and it leaves the cache of
\* names and both queues as they are.
C23_SelfDiscardedFirst ==
    [][(HandlingText /\ FromSelf /\ pc' # pc)
         => /\ pc' # "clientinfo"
            /\ username_cache' = username_cache
            /\ Outbound' = Outbound
            /\ discord_to_ts_queue' = discord_to_ts_queue]_vars

\* C24: messages are sent to the TS server in the order on_message put
\* them on the queue, and items are posted to the Discord channel in the
\* order the thread handed them over: the item whose post ends is the
\* oldest item taken and not yet posted.
C24_OrderKept ==
    /\ [][taken' # taken
            => taken' = taken \cup {Head(discord_to_ts_queue).id}]_vars
    /\ [][Len(relayLog') > Len(relayLog)
            => relayLog'[Len(relayLog')].text = Head(inFlight)]_vars

\* C25: no step of the main context (the signal handler among them) calls
\* logout on the TS connection or changes the handle self.ts3conn.
C25_ThreadOwnsConnection ==
    [][hpc' # hpc => ts3conn' = ts3conn /\ logouts' = logouts]_vars

\* C26: on every connection the first name given to clientupdate is the
\* configured name TS3_NICKNAME, with no suffix, and self.nickname stays
\* that name.
C26_ConfiguredNameFirst ==
    /\ nameCalls # << >> => nameCalls[1].name = 0
    /\ nickname = 0

\* C27: self.ts3conn is set only while the connection it names is open; it
\* is cleared before the thread sleeps the backoff; and logout is never
\* called on a connection that is closed.
C27_HandleOnlyWhileOpen ==
    /\ [](ts3conn => nOpen = 1)
    /\ [](pc = "sleeping" => ~ts3conn)
    /\ [][logouts' > logouts => nOpen = 1]_vars

\* C28: logout is called at most once on a connection, and the thread
\* issues no command of the loop (poll, lookup, keepalive) on a connection
\* on which logout was called.
C28_LogoutOnce ==
    /\ [](logouts <= 1)
    /\ [][(pc \in {"poll", "clientinfo", "keepalive"} /\ pc' # pc)
            => logouts = 0]_vars

====
